---- MODULE Spec2Model ----
(***************************************************************************)
(* A model of the CogniScript server's retrieval core:                     *)
(*   - the per-conversation vector index and the persisted document        *)
(*     descriptors (utils/chroma_utils.py, utils/doc_workflow.py),         *)
(*   - the conversation history store (utils/chat_utils.py),               *)
(*   - the token-budget truncation (utils/llm_context_utils.py).           *)
(* Strings that the code inspects character by character (conversation    *)
(* ids, collection names) are sequences of one-character strings.          *)
(***************************************************************************)
EXTENDS Integers, Sequences, FiniteSets, TLC

VARIABLES
  collections,   \* ChromaDB: collection name -> set of stored chunks
  documents,     \* MongoDB 'documents': set of persisted descriptors
  nextDoc,       \* the next fresh document id (uuid4 never repeats)
  res,           \* what the last ChromaUtils call returned
  chats,         \* MongoDB 'chats': chat id -> conversation_history
  cres,          \* what the last ChatUtils / route call returned
  rag_context,   \* truncate_context_if_needed: its context argument
  chat_history,  \* truncate_context_if_needed: its history argument
  max_tokens,    \* truncate_context_if_needed: its budget argument
  truncated,     \* truncate_context_if_needed: what it returned
  conversation_history,  \* format_chat_history: its history argument
  max_entries,           \* format_chat_history: its max_entries argument
  formatted_history,     \* format_chat_history: what it returned
  cite_context,          \* extract_citations_from_context: its rag_context
  assistant_response,    \* extract_citations_from_context: the response text
  cited,                 \* extract_citations_from_context: what it returned
  turns,                 \* process_chat_prompt: each call's position and locals
  history_log,           \* per history entry: the turn that appended it and
                         \* the turns that wrote a reply into it
  overlap,               \* whether a turn began while another was under way
  message_histories,     \* the service's _message_histories: chat id -> messages
  llm_available,         \* whether _create_llm succeeds in this environment
  supplied,              \* what the last model call was given
  pres,                  \* what the last POST /prompt request returned
  pdf_file,              \* DocProcessor: the pages of the file at pdf_path
  extracted,            \* what extract_text_with_pages returned
  processed,             \* what process_pdf returned
  ensurers               \* operations that ensure a collection, step by step

idxVars == <<collections, documents, nextDoc, res>>
chatVars == <<chats, cres>>
budgetVars == <<rag_context, chat_history, max_tokens, truncated>>
formatVars == <<conversation_history, max_entries, formatted_history>>
citeVars == <<cite_context, assistant_response, cited>>
turnVars == <<turns, history_log, overlap>>
promptVars == <<message_histories, llm_available, supplied, pres>>
docVars == <<pdf_file, extracted, processed>>
ensureVars == <<ensurers>>
vars == <<collections, documents, nextDoc, res, chats, cres,
          rag_context, chat_history, max_tokens, truncated,
          conversation_history, max_entries, formatted_history,
          cite_context, assistant_response, cited,
          turns, history_log, overlap,
          message_histories, llm_available, supplied, pres,
          pdf_file, extracted, processed, ensurers>>

\* what the operations on one part of the state leave alone
notIdx == <<chatVars, budgetVars, formatVars, citeVars, turnVars, promptVars, docVars, ensureVars>>
notChat == <<idxVars, budgetVars, formatVars, citeVars, turnVars, promptVars, docVars, ensureVars>>
notBudget == <<idxVars, chatVars, formatVars, citeVars, turnVars, promptVars, docVars, ensureVars>>
notFormat == <<idxVars, chatVars, budgetVars, citeVars, turnVars, promptVars, docVars, ensureVars>>
notCite == <<idxVars, chatVars, budgetVars, formatVars, turnVars, promptVars, docVars, ensureVars>>
notTurn == <<idxVars, budgetVars, formatVars, citeVars, promptVars, docVars, ensureVars>>
notPrompt == <<idxVars, cres, budgetVars, formatVars, citeVars, turnVars, docVars, ensureVars>>
notDoc == <<idxVars, chatVars, budgetVars, formatVars, citeVars, turnVars,
           promptVars, ensureVars>>
notEnsure == <<chatVars, budgetVars, formatVars, citeVars, turnVars,
              promptVars, docVars>>

(***************************************************************************)
(* Bounds                                                                  *)
(***************************************************************************)
MaxDocs == 2       \* documents ingested in one run
MaxResults == 2    \* largest n_results asked of a query

\* Conversation ids: two that differ only in '-' / '_', one unrelated.
ChatIds == { <<"a", "-", "b">>, <<"a", "_", "b">>, <<"c">> }

\* Uploaded files: per page, the text page.get_text() returns.  One file of
\* three pages, the second blank; a document without any chunk arises from
\* it when no vector comes back.
Pdfs == { << "t1", " ", "t2" >> }

\* Texts a query may carry: the chunks' texts verbatim, and another one
QueryTexts == { "t1", "t2", "q" }

\* the sequences over S of length at most n
SeqsUpTo(S, n) == UNION { [1..k -> S] : k \in 0..n }

(***************************************************************************)
(* Vector index: collection naming                                         *)
(***************************************************************************)
\* str.replace(old, new) on a string held as a sequence of characters
Replace(s, old, new) == [i \in DOMAIN s |-> IF s[i] = old THEN new ELSE s[i]]

\* f"{chat_id.replace('/', '_').replace('-', '_')}_docs"
CollectionName(chat_id) ==
  Replace(Replace(chat_id, "/", "_"), "-", "_") \o <<"_", "d", "o", "c", "s">>

\* What a ChromaUtils call returned, with the arguments it was given (pdf,
\* query, n_results), for a query the backend's raw hits (results), and for
\* an upload the chunks for which the provider returned an empty vector;
\* for a listing, its entries (chat_dbs).
NoRes == [op |-> "none", chat_id |-> <<>>, success |-> FALSE, created |-> FALSE,
          error |-> "", existed |-> FALSE, doc_id |-> 0, chunk_ids |-> <<>>,
          chunks_count |-> 0, relevant_chunks |-> <<>>, n_results |-> 0,
          pdf |-> <<>>, query |-> "", results |-> <<>>,
          empty_vectors |-> {}, chat_dbs |-> <<>>]

(***************************************************************************)
(* create_chat_vector_db                                                   *)
(***************************************************************************)
\* Mutant of CreatedStore: the collection is created anew on every call,
\* without looking at list_collections first.
CreatedStoreEmptying(store, chat_id) ==
  [n \in DOMAIN store \cup {CollectionName(chat_id)} |->
     IF n = CollectionName(chat_id) THEN {} ELSE store[n]]

\* The collections after create_chat_vector_db(chat_id): list_collections,
\* then create_collection only when the name is not listed.
CreatedStore(store, chat_id) ==
  IF CollectionName(chat_id) \in DOMAIN store
  THEN store
  ELSE [n \in DOMAIN store \cup {CollectionName(chat_id)} |->
          IF n \in DOMAIN store THEN store[n] ELSE {}]

\* the 'created' field of the result
CreatedFlag(store, chat_id) == CollectionName(chat_id) \notin DOMAIN store

create_chat_vector_db(chat_id) ==
  /\ collections' = CreatedStore(collections, chat_id)
  /\ res' = [NoRes EXCEPT !.op = "create", !.chat_id = chat_id,
                          !.success = TRUE,
                          !.existed = (CollectionName(chat_id) \in DOMAIN collections),
                          !.created = CreatedFlag(collections, chat_id)]
  /\ UNCHANGED <<documents, nextDoc>>

(***************************************************************************)
(* Document workflow (DocProcessor)                                        *)
(***************************************************************************)
\* The page texts tried: no text, white space only, a run of dots, one
\* chunk's worth of text ("t1", "t2"), and a text that splits in two.
PageTexts == { "", " ", "...", "t1", "t2", "t1 t2" }

\* text.strip() is empty
IsBlank(text) == text \in { "", " " }

\* clean_text: runs of dots, dashes and underscores become one space, and
\* the result is stripped
CleanText(text) == IF text \in { "", " ", "..." } THEN "" ELSE text

\* splitter.split_text: the pieces of a text, none for the empty text
SplitText(text) ==
  CASE text = "" -> <<>>
    [] text = "t1 t2" -> << "t1", "t2" >>
    [] OTHER -> << text >>

\* Mutant of ExtractFrom: page_num is advanced only past the pages that
\* have text.
RECURSIVE ExtractCountingTextPages(_, _, _)
ExtractCountingTextPages(pdf, i, page_num) ==
  IF i > Len(pdf) THEN <<>>
  ELSE IF ~IsBlank(pdf[i])
  THEN << [text |-> CleanText(pdf[i]), page_no |-> page_num + 1] >>
       \o ExtractCountingTextPages(pdf, i + 1, page_num + 1)
  ELSE ExtractCountingTextPages(pdf, i + 1, page_num)

\* the loop of extract_text_with_pages from the i-th page on, page_num pages
\* having been passed
RECURSIVE ExtractFrom(_, _, _)
ExtractFrom(pdf, i, page_num) ==
  IF i > Len(pdf) THEN <<>>
  ELSE IF ~IsBlank(pdf[i])
  THEN << [text |-> CleanText(pdf[i]), page_no |-> page_num + 1] >>
       \o ExtractFrom(pdf, i + 1, page_num + 1)
  ELSE ExtractFrom(pdf, i + 1, page_num + 1)

\* extract_text_with_pages: one entry per page whose text is not blank,
\* tagged with the page's 1-indexed position.
ExtractTextWithPages(pdf) == ExtractFrom(pdf, 1, 0)

\* the chunks of one page: the non-blank pieces of its text, each with its
\* index among the pieces
ChunksOfPage(p) ==
  LET chunks == SplitText(p.text)
  IN  [j \in 1..Len(chunks) |->
         [text |-> chunks[j], page_no |-> p.page_no, chunk_in_page |-> j]]

\* Mutant of ChunkTextWithMetadata: the chunks of the later pages come first.
RECURSIVE ChunkTextWithMetadataLastPageFirst(_)
ChunkTextWithMetadataLastPageFirst(page_texts) ==
  IF page_texts = <<>> THEN <<>>
  ELSE ChunkTextWithMetadataLastPageFirst(Tail(page_texts))
       \o ChunksOfPage(Head(page_texts))

\* chunk_text_with_metadata: the pages' chunks, page after page
RECURSIVE ChunkTextWithMetadata(_)
ChunkTextWithMetadata(page_texts) ==
  IF page_texts = <<>> THEN <<>>
  ELSE ChunksOfPage(Head(page_texts)) \o ChunkTextWithMetadata(Tail(page_texts))

\* The embedder (all-MiniLM-L6-v2 behind embed_documents and embed_query):
\* a deterministic map from a text to its vector, here a point on a line.
Embedding(text) ==
  CASE text = "t1" -> 0 [] text = "t2" -> 3 [] text = "q" -> 1 [] OTHER -> 7

\* the vector without components, which is no point of the line
EmptyVector == -1

\* embed_chunks.  The batch call embed_documents either returns k vectors,
\* the vectors of the first k texts, or raises, and then embed_query is
\* called once per text; zip(chunks, embeddings) pairs them up.  For the
\* texts at the positions empties the provider returns an empty vector.
EmbedChunks(chunks, k, batch_ok, empties) ==
  LET vector(i) == IF i \in empties THEN EmptyVector
                   ELSE Embedding(chunks[i].text)
      embeddings ==
        IF batch_ok
        THEN [i \in 1..(IF k < Len(chunks) THEN k ELSE Len(chunks)) |->
                vector(i)]
        ELSE [i \in 1..Len(chunks) |-> vector(i)]
  IN  [i \in 1..Len(embeddings) |->
         [text |-> chunks[i].text, page_no |-> chunks[i].page_no,
          chunk_in_page |-> chunks[i].chunk_in_page,
          embedding |-> embeddings[i]]]

\* Mutant of ChunkId: the ordinal restarts on every page.
ChunkIdPerPage(doc_id, embedded, i) == <<doc_id, embedded[i].chunk_in_page>>

\* f"{doc_id}_{chunk_idx + 1}" over enumerate(embedded_chunks)
ChunkId(doc_id, embedded, i) == <<doc_id, i>>

\* process_pdf, steps 3 to 7: the formatted chunks of the document
ProcessPdf(doc_id, pdf, k, batch_ok, empties) ==
  LET embedded == EmbedChunks(ChunkTextWithMetadata(ExtractTextWithPages(pdf)),
                              k, batch_ok, empties)
  IN  [i \in 1..Len(embedded) |->
         [chunk_id |-> ChunkId(doc_id, embedded, i),
          text |-> embedded[i].text,
          pageNo |-> embedded[i].page_no,
          embedding |-> embedded[i].embedding]]

(***************************************************************************)
(* upload_document                                                         *)
(***************************************************************************)
\* How the external calls of one upload end:
\*   "extract"      fitz cannot open or parse the file (process_pdf raises)
\*   "embed"        the batch call and the single-item fallback both raise
\*   "add"          collection.add raises
\*   "insert_none"  insert_one returns no inserted id
\*   "insert_raise" insert_one raises
Outcomes == {"ok", "extract", "embed", "add", "insert_none", "insert_raise"}

\* the chunk as stored by collection.add: metadata enriched with chat and doc
StoredChunks(chat_id, doc_id, chunks) ==
  { [chunk_id |-> chunks[i].chunk_id, text |-> chunks[i].text,
     embedding |-> chunks[i].embedding,
     doc_id |-> doc_id, chat_id |-> chat_id,
     pageNo |-> chunks[i].pageNo] : i \in DOMAIN chunks }

Ids(chunks) == [i \in DOMAIN chunks |-> chunks[i].chunk_id]

Range(s) == { s[i] : i \in DOMAIN s }

\* the DocumentModel persisted for the upload
Descriptor(chat_id, doc_id, chunks) ==
  [docId |-> doc_id, chat_id |-> chat_id,
   chroma_collection |-> CollectionName(chat_id),
   chunk_ids |-> Ids(chunks),
   total_chunks |-> Len(chunks),
   pageCount |-> Cardinality({ chunks[i].pageNo : i \in DOMAIN chunks })]

\* collection.add(ids, ...) / collection.delete(ids=ids) on one collection
AddTo(store, name, stored) == [store EXCEPT ![name] = @ \cup stored]
DeleteIds(store, name, ids) ==
  [store EXCEPT ![name] = { c \in @ : c.chunk_id \notin Range(ids) }]

upload_document(chat_id, pdf, outcome, k, batch_ok, empties) ==
  LET name == CollectionName(chat_id)
      ensured == CreatedStore(collections, chat_id)
      doc_id == nextDoc
      chunks == ProcessPdf(doc_id, pdf, k, batch_ok, empties)
      empty == IF outcome \in {"extract", "embed"} THEN {}
               ELSE { i \in DOMAIN chunks : chunks[i].embedding = EmptyVector }
      added == AddTo(ensured, name, StoredChunks(chat_id, doc_id, chunks))
      failure(stage) == [NoRes EXCEPT !.op = "upload", !.chat_id = chat_id,
                                      !.pdf = pdf,
                                      !.existed = (name \in DOMAIN collections),
                                      !.doc_id = doc_id, !.error = stage,
                                      !.empty_vectors = empty]
  IN
  /\ nextDoc <= MaxDocs
  /\ CASE outcome \in {"extract", "embed", "add"} ->
            /\ collections' = ensured
            /\ UNCHANGED <<documents, nextDoc>>
            /\ res' = failure(outcome)
       [] outcome = "insert_raise" ->
            \* the outer except: nothing is cleaned up
            /\ collections' = added
            /\ nextDoc' = nextDoc + 1
            /\ UNCHANGED documents
            /\ res' = failure(outcome)
       [] outcome = "insert_none" ->
            \* the else branch: collection.delete(ids=ids); the id, stored
            \* nowhere any more, is as good as unused
            /\ collections' = DeleteIds(added, name, Ids(chunks))
            /\ UNCHANGED <<documents, nextDoc>>
            /\ res' = failure(outcome)
       [] outcome = "ok" ->
            /\ collections' = added
            /\ nextDoc' = nextDoc + 1
            /\ documents' = documents \cup {Descriptor(chat_id, doc_id, chunks)}
            /\ res' = [NoRes EXCEPT !.op = "upload", !.chat_id = chat_id,
                                    !.success = TRUE, !.pdf = pdf,
                                    !.existed = (name \in DOMAIN collections),
                                    !.doc_id = doc_id,
                                    !.chunks_count = Len(chunks),
                                    !.chunk_ids = Ids(chunks),
                                    !.empty_vectors = empty]

\* How the embedding provider answers for n texts: the batch call returns
\* k <= n vectors, or it raises and every single-item call answers.  The
\* answer shows only in the chunks an upload leaves stored; for the outcomes
\* that leave none (the provider not asked, or raising, or the chunks never
\* added, or deleted again) one answer stands for all.
ProviderAnswers(outcome, n) ==
  IF outcome \in {"ok", "insert_raise"}
  THEN { [batch_ok |-> TRUE, k |-> k] : k \in 0..n } \cup
       { [batch_ok |-> FALSE, k |-> n] }
  ELSE { [batch_ok |-> FALSE, k |-> n] }

\* an upload to one of the conversations chat_ids, with any file and outcome,
\* the provider returning no empty vector
UploadIn(chat_ids) ==
  \E chat_id \in chat_ids, pdf \in Pdfs, outcome \in Outcomes :
    \E provider \in ProviderAnswers(outcome, Len(ChunkTextWithMetadata(
                                                  ExtractTextWithPages(pdf)))) :
      upload_document(chat_id, pdf, outcome, provider.k, provider.batch_ok, {})

Upload ==
  /\ UploadIn(ChatIds)
  /\ UNCHANGED notIdx

(***************************************************************************)
(* query_chat_docs                                                         *)
(***************************************************************************)
\* the distance of the collection's default space: squared L2
Distance(u, v) == (u - v) * (u - v)

\* collection.query(query_embeddings, n_results): the n nearest chunks of
\* the collection, all of them when it holds fewer, by ascending distance;
\* chunks at equal distance come in any order, and any of them may be the
\* one left out.
QueryAnswers(coll, query_embedding, n_results) ==
  LET m == IF Cardinality(coll) < n_results THEN Cardinality(coll) ELSE n_results
      d(c) == Distance(query_embedding, c.embedding)
  IN  { [i \in 1..m |->
           [id |-> hits[i].chunk_id, document |-> hits[i].text,
            metadata |-> [chat_id |-> hits[i].chat_id, doc_id |-> hits[i].doc_id,
                          pageNo |-> hits[i].pageNo],
            distance |-> d(hits[i])]] :
        hits \in { h \in [1..m -> coll] :
                     /\ \A a, b \in 1..m : a < b =>
                          (h[a] # h[b] /\ d(h[a]) <= d(h[b]))
                     /\ \A c \in coll :
                          (\A a \in 1..m : h[a] # c) =>
                            \A a \in 1..m : d(h[a]) <= d(c) } }

\* Mutant of ChunkData: the rank is the 0-based loop index.
ChunkDataRankFromZero(hit, i) ==
  [chunk_id |-> hit.id, text |-> hit.document,
   similarity_score |-> 1 - hit.distance,
   metadata |-> hit.metadata, relevance_rank |-> i - 1]

\* the chunk_data built for the i-th hit (i counted from 1)
ChunkData(hit, i) ==
  [chunk_id |-> hit.id, text |-> hit.document,
   similarity_score |-> 1 - hit.distance,
   metadata |-> hit.metadata, relevance_rank |-> i]

\* get_collection raises: the inner except returns the failure result
QueryMissing(chat_id, query, n_results) ==
  /\ CollectionName(chat_id) \notin DOMAIN collections
  /\ res' = [NoRes EXCEPT !.op = "query", !.chat_id = chat_id,
                          !.query = query, !.n_results = n_results,
                          !.success = FALSE, !.error = "Collection not found"]
  /\ UNCHANGED <<collections, documents, nextDoc>>

QueryFound(chat_id, query, n_results) ==
  /\ CollectionName(chat_id) \in DOMAIN collections
  /\ \E results \in QueryAnswers(collections[CollectionName(chat_id)],
                                  Embedding(query), n_results) :
       res' = [NoRes EXCEPT !.op = "query", !.chat_id = chat_id,
                            !.query = query, !.n_results = n_results,
                            !.existed = TRUE, !.success = TRUE,
                            !.results = results,
                            !.relevant_chunks =
                               [k \in DOMAIN results |-> ChunkData(results[k], k)]]
  /\ UNCHANGED <<collections, documents, nextDoc>>

query_chat_docs(chat_id, query, n_results) ==
  \/ QueryMissing(chat_id, query, n_results)
  \/ QueryFound(chat_id, query, n_results)

(***************************************************************************)
(* delete_chat_vector_db                                                   *)
(***************************************************************************)
DropCollection(store, name) == [n \in DOMAIN store \ {name} |-> store[n]]

\* delete_collection raises for a name that does not exist
DeleteMissing(chat_id) ==
  /\ CollectionName(chat_id) \notin DOMAIN collections
  /\ res' = [NoRes EXCEPT !.op = "delete", !.chat_id = chat_id,
                          !.success = FALSE, !.error = "Collection not found"]
  /\ UNCHANGED <<collections, documents, nextDoc>>

\* delete_collection, then delete_many({'chat_id': chat_id})
DeleteCascade(chat_id) ==
  /\ CollectionName(chat_id) \in DOMAIN collections
  /\ collections' = DropCollection(collections, CollectionName(chat_id))
  /\ documents' = { d \in documents : d.chat_id # chat_id }
  /\ res' = [NoRes EXCEPT !.op = "delete", !.chat_id = chat_id,
                          !.existed = TRUE, !.success = TRUE]
  /\ UNCHANGED nextDoc

\* delete_many raises after the collection is gone: the same inner except
\* answers 'Collection not found'
DeleteDescriptorsFail(chat_id) ==
  /\ CollectionName(chat_id) \in DOMAIN collections
  /\ collections' = DropCollection(collections, CollectionName(chat_id))
  /\ res' = [NoRes EXCEPT !.op = "delete", !.chat_id = chat_id,
                          !.existed = TRUE,
                          !.success = FALSE, !.error = "Collection not found"]
  /\ UNCHANGED <<documents, nextDoc>>

delete_chat_vector_db(chat_id) ==
  \/ DeleteMissing(chat_id)
  \/ DeleteCascade(chat_id)
  \/ DeleteDescriptorsFail(chat_id)

(***************************************************************************)
(* The vector index and the descriptor store                               *)
(***************************************************************************)
Create ==
  /\ \E chat_id \in ChatIds : create_chat_vector_db(chat_id)
  /\ UNCHANGED notIdx

Query ==
  /\ \E chat_id \in ChatIds, query \in QueryTexts, n_results \in 1..MaxResults :
       query_chat_docs(chat_id, query, n_results)
  /\ UNCHANGED notIdx

Delete ==
  /\ \E chat_id \in ChatIds : delete_chat_vector_db(chat_id)
  /\ UNCHANGED notIdx

ChatIdle == chats = <<>> /\ cres = <<>>
BudgetIdle == /\ rag_context = <<>> /\ chat_history = <<>>
              /\ max_tokens = 0 /\ truncated = <<>>

NotFormatted == [returned |-> FALSE, messages |-> <<>>]
FormatIdle == /\ conversation_history = <<>> /\ max_entries = 0
              /\ formatted_history = NotFormatted

TurnIdle == turns = <<>> /\ history_log = <<>> /\ overlap = FALSE

NoSupply == [given |-> FALSE, chat_id |-> <<>>, context |-> <<>>,
             history |-> <<>>, input |-> 0]
NoPromptRes == [op |-> "none", chat_id |-> <<>>, status |-> 0,
                fallback_mode |-> FALSE]
PromptIdle == /\ message_histories = <<>> /\ llm_available = FALSE
              /\ supplied = NoSupply /\ pres = NoPromptRes

NotExtracted == [returned |-> FALSE, entries |-> <<>>]
NotProcessed == [returned |-> FALSE, docId |-> 0, chunks |-> <<>>]
DocIdle == /\ pdf_file = <<>> /\ extracted = NotExtracted
           /\ processed = NotProcessed

EnsureIdle == ensurers = <<>>

NotCited == [returned |-> FALSE, items |-> <<>>]
CiteIdle == /\ cite_context = <<>> /\ assistant_response = <<>>
            /\ cited = NotCited

Init ==
  /\ collections = <<>>
  /\ documents = {}
  /\ nextDoc = 1
  /\ res = NoRes
  /\ ChatIdle
  /\ BudgetIdle
  /\ FormatIdle
  /\ CiteIdle
  /\ TurnIdle
  /\ PromptIdle
  /\ DocIdle
  /\ EnsureIdle

\* Index maintenance: creation, ingestion, deletion
Next ==
  \/ Create
  \/ Upload
  \/ Delete

Spec == Init /\ [][Next]_vars

\* Index maintenance with retrieval
NextQuery ==
  \/ Create
  \/ Upload
  \/ Delete
  \/ Query

SpecQuery == Init /\ [][NextQuery]_vars

\* Ingestion and retrieval within one conversation
OneChat == { <<"c">> }

UploadToChat ==
  /\ UploadIn(OneChat)
  /\ UNCHANGED notIdx

QueryChat ==
  /\ \E chat_id \in OneChat, query \in QueryTexts, n_results \in 1..MaxResults :
       query_chat_docs(chat_id, query, n_results)
  /\ UNCHANGED notIdx

NextRetrieve ==
  \/ UploadToChat
  \/ QueryChat

SpecRetrieve == Init /\ [][NextRetrieve]_vars

\* Ingestion into one conversation, the provider returning an empty vector
\* for any of the chunks
UploadEmbedded ==
  /\ \E chat_id \in OneChat, pdf \in Pdfs, outcome \in Outcomes :
       LET n == Len(ChunkTextWithMetadata(ExtractTextWithPages(pdf)))
       IN  \E provider \in ProviderAnswers(outcome, n),
              empties \in SUBSET (1..n) :
             upload_document(chat_id, pdf, outcome, provider.k,
                             provider.batch_ok, empties)
  /\ UNCHANGED notIdx

NextEmbed == UploadEmbedded

(***************************************************************************)
(* get_all_chat_dbs                                                        *)
(***************************************************************************)
DocsSuffix == << "_", "d", "o", "c", "s" >>

StartsWith(s, prefix) ==
  Len(s) >= Len(prefix) /\ SubSeq(s, 1, Len(prefix)) = prefix

\* collection_name.endswith('_docs')
EndsWith(s, suffix) ==
  Len(s) >= Len(suffix) /\ SubSeq(s, Len(s) - Len(suffix) + 1, Len(s)) = suffix

\* str.replace(sub, ''): every occurrence of sub is taken out, left to right
RECURSIVE Remove(_, _)
Remove(s, sub) ==
  IF s = <<>> THEN <<>>
  ELSE IF StartsWith(s, sub)
  THEN Remove(SubSeq(s, Len(sub) + 1, Len(s)), sub)
  ELSE << Head(s) >> \o Remove(Tail(s), sub)

\* collection_name.replace('_docs', '').replace('_', '/')
ChatIdOf(collection_name) ==
  Replace(Remove(collection_name, DocsSuffix), "_", "/")

\* the entry of one collection; when reading the collection fails the entry
\* has status 'error' and counts of 0
ChatDbInfo(name, stats_ok) ==
  [chat_id |-> ChatIdOf(name),
   collection_name |-> name,
   total_chunks |-> IF stats_ok THEN Cardinality(collections[name]) ELSE 0,
   total_documents |->
     IF stats_ok
     THEN Cardinality({ c.doc_id : c \in collections[name] }) ELSE 0,
   status |-> IF stats_ok THEN "active" ELSE "error"]

\* the orders list_collections may return the collections in
Orders(S) ==
  { seq \in [1..Cardinality(S) -> S] :
      \A i, j \in DOMAIN seq : i # j => seq[i] # seq[j] }

\* get_all_chat_dbs: all_collections is what list_collections returned,
\* unreadable the collections that cannot be read
get_all_chat_dbs(list_ok, all_collections, unreadable) ==
  LET ours == SelectSeq(all_collections, LAMBDA name : EndsWith(name, DocsSuffix))
  IN  /\ res' = IF list_ok
                THEN [NoRes EXCEPT
                        !.op = "list", !.success = TRUE,
                        !.chat_dbs = [i \in DOMAIN ours |->
                                        ChatDbInfo(ours[i], ours[i] \notin unreadable)]]
                ELSE [NoRes EXCEPT !.op = "list", !.error = "list"]
      /\ UNCHANGED <<collections, documents, nextDoc>>

\* the conversations of the listing runs: no two share a collection name
ListedChats == { <<"a", "-", "b">>, <<"c">> }

CreateListed ==
  /\ \E chat_id \in ListedChats : create_chat_vector_db(chat_id)
  /\ UNCHANGED notIdx

UploadListed ==
  /\ UploadIn(ListedChats)
  /\ UNCHANGED notIdx

ListChatDbs ==
  /\ \E list_ok \in BOOLEAN, all_collections \in Orders(DOMAIN collections),
        unreadable \in SUBSET (DOMAIN collections) :
       get_all_chat_dbs(list_ok, all_collections, unreadable)
  /\ UNCHANGED notIdx

NextList ==
  \/ CreateListed
  \/ UploadListed
  \/ ListChatDbs

SpecList == Init /\ [][NextList]_vars

SpecEmbed == Init /\ [][NextEmbed]_vars

(***************************************************************************)
(* Ensuring a conversation's collection, step by step.  Each operation is  *)
(* a process of its own; its steps are the calls it makes on the ChromaDB  *)
(* client: get_collection, list_collections, create_collection.            *)
(***************************************************************************)
MaxEnsurers == 2   \* operations under way at the same time

Ensurers == 1..MaxEnsurers

\* kind: "create" for create_chat_vector_db, "upload" for upload_document;
\* listed: whether list_collections showed the collection; success, created
\* and error: the result of create_chat_vector_db
IdleEnsurer == [pc |-> "idle", kind |-> "", chat_id |-> <<>>, listed |-> FALSE,
                success |-> FALSE, created |-> FALSE, error |-> ""]

\* An operation begins: create_chat_vector_db goes to list_collections,
\* upload_document to get_collection
BeginEnsure(p, kind, chat_id) ==
  /\ ensurers[p].pc = "idle"
  /\ ensurers' = [ensurers EXCEPT ![p] =
       [IdleEnsurer EXCEPT !.kind = kind, !.chat_id = chat_id,
                           !.pc = IF kind = "create" THEN "list" ELSE "get"]]
  /\ UNCHANGED idxVars

\* upload_document: get_collection; when it raises, create_chat_vector_db
\* is called
GetCollection(p) ==
  /\ ensurers[p].pc = "get"
  /\ ensurers' = [ensurers EXCEPT ![p].pc =
       IF CollectionName(ensurers[p].chat_id) \in DOMAIN collections
       THEN "ensured" ELSE "list"]
  /\ UNCHANGED idxVars

\* create_chat_vector_db: list_collections and the membership test
ListCollections(p) ==
  /\ ensurers[p].pc = "list"
  /\ ensurers' = [ensurers EXCEPT
       ![p].listed = (CollectionName(ensurers[p].chat_id) \in DOMAIN collections),
       ![p].pc = "create"]
  /\ UNCHANGED idxVars

\* where the operation goes once create_chat_vector_db has returned: the
\* upload returns the failed result, or gets the collection and goes on
AfterCreate(kind, success) ==
  IF kind = "upload" /\ success THEN "ensured" ELSE "done"

\* create_chat_vector_db: the collection was listed and nothing is done, or
\* create_collection is called, which raises when the collection exists
CreateCollection(p) ==
  LET e == ensurers[p]
      name == CollectionName(e.chat_id)
  IN
  /\ e.pc = "create"
  /\ IF e.listed
     THEN /\ ensurers' = [ensurers EXCEPT ![p] =
                 [e EXCEPT !.success = TRUE,
                           !.pc = AfterCreate(e.kind, TRUE)]]
          /\ UNCHANGED collections
     ELSE IF name \in DOMAIN collections
     THEN /\ ensurers' = [ensurers EXCEPT ![p] =
                 [e EXCEPT !.error = "create",
                           !.pc = AfterCreate(e.kind, FALSE)]]
          /\ UNCHANGED collections
     ELSE /\ ensurers' = [ensurers EXCEPT ![p] =
                 [e EXCEPT !.success = TRUE, !.created = TRUE,
                           !.pc = AfterCreate(e.kind, TRUE)]]
          /\ collections' = CreatedStore(collections, e.chat_id)
  /\ UNCHANGED <<documents, nextDoc, res>>

\* upload_document from process_pdf on, the collection in hand
FinishUpload(p) ==
  /\ ensurers[p].pc = "ensured"
  /\ UploadIn({ensurers[p].chat_id})
  /\ ensurers' = [ensurers EXCEPT ![p].pc = "done"]

EnsureBegin ==
  /\ \E p \in Ensurers, kind \in {"create", "upload"}, chat_id \in OneChat :
       BeginEnsure(p, kind, chat_id)
  /\ UNCHANGED notEnsure

EnsureGetCollection ==
  /\ \E p \in Ensurers : GetCollection(p)
  /\ UNCHANGED notEnsure

EnsureListCollections ==
  /\ \E p \in Ensurers : ListCollections(p)
  /\ UNCHANGED notEnsure

EnsureCreateCollection ==
  /\ \E p \in Ensurers : CreateCollection(p)
  /\ UNCHANGED notEnsure

EnsureFinishUpload ==
  /\ \E p \in Ensurers : FinishUpload(p)
  /\ UNCHANGED notEnsure

InitEnsure ==
  /\ collections = <<>>
  /\ documents = {}
  /\ nextDoc = 1
  /\ res = NoRes
  /\ ensurers = [p \in Ensurers |-> IdleEnsurer]
  /\ ChatIdle
  /\ BudgetIdle
  /\ FormatIdle
  /\ CiteIdle
  /\ TurnIdle
  /\ PromptIdle
  /\ DocIdle

NextEnsure ==
  \/ EnsureBegin
  \/ EnsureGetCollection
  \/ EnsureListCollections
  \/ EnsureCreateCollection
  \/ EnsureFinishUpload

SpecEnsure == InitEnsure /\ [][NextEnsure]_vars

(***************************************************************************)
(* Claims about the vector index and the descriptor store                  *)
(***************************************************************************)
ChunksOfDoc(doc_id) ==
  UNION { { c \in collections[n] : c.doc_id = doc_id } : n \in DOMAIN collections }

DescriptorsOf(doc_id) == { d \in documents : d.docId = doc_id }

IdsIn(name) ==
  IF name \in DOMAIN collections
  THEN { c.chunk_id : c \in collections[name] } ELSE {}

\* C2: once upload_document has returned, with success or with any failure,
\* the index and the descriptor store agree about the uploaded document:
\* its descriptor exists and all its chunk_ids are in the conversation's
\* collection, or neither the descriptor nor any chunk of it exists.
C2_IndexAgreesAfterUpload ==
  res.op = "upload" =>
    \/ /\ DescriptorsOf(res.doc_id) # {}
       /\ \A d \in DescriptorsOf(res.doc_id) :
            Range(d.chunk_ids) \subseteq IdsIn(CollectionName(res.chat_id))
    \/ /\ DescriptorsOf(res.doc_id) = {}
       /\ ChunksOfDoc(res.doc_id) = {}

\* C3: an upload that fails in extraction, chunking or embedding returns a
\* failure and changes nothing: no chunk added, no descriptor persisted, the
\* set of collections as before the call.
C3_AbortHasNoSideEffects ==
  [][ (res'.op = "upload" /\ res'.error \in {"extract", "embed"}) =>
        /\ ~res'.success
        /\ collections' = collections
        /\ documents' = documents ]_vars

\* C4: after delete_chat_vector_db on a conversation that had a collection,
\* the conversation has no collection (no chunk is queryable) and no
\* descriptor references it, however the backend calls ended; and the call
\* reports success exactly when both were removed.
C4_DeleteLeavesNothing ==
  (res.op = "delete" /\ res.existed) =>
    LET gone == CollectionName(res.chat_id) \notin DOMAIN collections
        unreferenced == \A d \in documents : d.chat_id # res.chat_id
    IN  /\ gone
        /\ unreferenced
        /\ res.success <=> (gone /\ unreferenced)

\* C5: a query on a conversation whose collection does not exist returns a
\* successful result with no chunks, never a failure.
C5_MissingCollectionIsEmptySuccess ==
  (res.op = "query" /\ ~res.existed) =>
    (res.success /\ res.relevant_chunks = <<>>)

\* C6: conversations are isolated: a query scoped to one conversation id
\* returns no chunk ingested under another id, and deleting one
\* conversation's collection removes no chunk of another conversation.
C6_ConversationIsolation ==
  [][ /\ res'.op = "query" =>
           \A k \in DOMAIN res'.relevant_chunks :
             res'.relevant_chunks[k].metadata.chat_id = res'.chat_id
      /\ res'.op = "delete" =>
           \A n \in DOMAIN collections :
             \A c \in collections[n] :
               c.chat_id # res'.chat_id =>
                 (n \in DOMAIN collections' /\ c \in collections'[n]) ]_vars

C8_ChunkIdsDense ==
  /\ \A d \in documents :
       d.chunk_ids = [i \in 1..d.total_chunks |-> <<d.docId, i>>]
  /\ (res.op = "upload" /\ res.success) =>
       /\ Cardinality(DescriptorsOf(res.doc_id)) = 1
       /\ \A d \in DescriptorsOf(res.doc_id) :
            /\ Len(d.chunk_ids) = res.chunks_count
            /\ Len(d.chunk_ids) = Cardinality(ChunksOfDoc(res.doc_id))
            /\ Range(d.chunk_ids) = { c.chunk_id : c \in ChunksOfDoc(res.doc_id) }
            /\ ChunksOfDoc(res.doc_id) \subseteq collections[CollectionName(res.chat_id)]

\* C8 witness: a successful upload of a document with chunks on two pages
C8_TwoPageDocumentIngested ==
  /\ res.op = "upload"
  /\ res.success
  /\ res.chunks_count = 2
  /\ Cardinality({ c.pageNo : c \in ChunksOfDoc(res.doc_id) }) = 2

\* C16: query_chat_docs on an existing collection returns at most n_results
\* chunks; their relevance_rank values are exactly 1..m in list order, each
\* similarity_score is 1 minus the backend distance of that chunk, and
\* similarity does not increase as rank increases.
C16_RankedBySimilarity ==
  (res.op = "query" /\ res.existed) =>
    LET out == res.relevant_chunks
    IN  /\ res.success
        /\ Len(out) <= res.n_results
        /\ Len(out) = Len(res.results)
        /\ \A k \in DOMAIN out :
             /\ out[k].relevance_rank = k
             /\ out[k].chunk_id = res.results[k].id
             /\ out[k].similarity_score = 1 - res.results[k].distance
             /\ out[k].similarity_score =
                  1 - Distance(Embedding(res.query), Embedding(out[k].text))
        /\ \A j, k \in DOMAIN out :
             j < k => out[j].similarity_score >= out[k].similarity_score

\* C16 witness: a query that returned two chunks at different distances
C16_TwoChunksRanked ==
  /\ res.op = "query"
  /\ Len(res.relevant_chunks) = 2
  /\ res.relevant_chunks[1].similarity_score >
       res.relevant_chunks[2].similarity_score

\* C17: embed_chunks returns exactly one embedded chunk per input chunk, in
\* input order, each with the embedding of its own text, whether the batch
\* call succeeds or the single-item fallback runs: an ingested document
\* holds every chunk of its file, none dropped when the provider returns
\* fewer vectors than texts.
C17_OneEmbeddingPerChunk ==
  (res.op = "upload" /\ res.success) =>
    LET input == ChunkTextWithMetadata(ExtractTextWithPages(res.pdf))
        stored == ChunksOfDoc(res.doc_id)
    IN  /\ res.chunks_count = Len(input)
        /\ \A i \in DOMAIN input :
             \E c \in stored :
               /\ c.chunk_id = <<res.doc_id, i>>
               /\ c.text = input[i].text
               /\ c.pageNo = input[i].page_no
               /\ c.embedding = Embedding(input[i].text)

\* C18: after a document has been ingested into a conversation, possibly
\* alongside other documents or a second upload of the same file, a query
\* of that conversation with text identical to one of the document's chunks
\* returns that chunk among the results, for every n_results >= 1.
C18_VerbatimChunkReturned ==
  (res.op = "query" /\ res.existed) =>
    \A c \in collections[CollectionName(res.chat_id)] :
      (c.text = res.query /\ DescriptorsOf(c.doc_id) # {}) =>
        \E k \in DOMAIN res.relevant_chunks :
          res.relevant_chunks[k].chunk_id = c.chunk_id

(***************************************************************************)
(* Conversation history (ChatUtils and the /response route)                *)
(***************************************************************************)
MaxHistory == 3    \* entries appended to one conversation

ExistingChats == { <<"c">> }           \* the chats stored in MongoDB
Prompts == { "p1", "p2" }
Replies == { "r1", "r2" }              \* replies the chatbot service stores
Responses == Replies \cup { "", " " }  \* what a client may post as a reply
CitationLists == { <<>>, << [source |-> "f.pdf"] >> }

\* str.strip() on the texts above
Strip(text) == IF text = " " THEN "" ELSE text

\* ConversationEntry(user=user_prompt, assistant="", citations=[])
ConversationEntry(user_prompt) ==
  [user |-> user_prompt, assistant |-> "", citations |-> <<>>]

NoChatRes == [op |-> "none", chat_id |-> <<>>, ok |-> FALSE, status |-> 0]

\* ChatUtils.add_prompt_to_chat: $push onto conversation_history; the
\* update modifies nothing when no chat has the id
add_prompt_to_chat(chat_id, user_prompt) ==
  IF chat_id \in DOMAIN chats
  THEN /\ Len(chats[chat_id]) < MaxHistory
       /\ chats' = [chats EXCEPT ![chat_id] = Append(@, ConversationEntry(user_prompt))]
       /\ cres' = [NoChatRes EXCEPT !.op = "prompt", !.chat_id = chat_id, !.ok = TRUE]
  ELSE /\ chats' = chats
       /\ cres' = [NoChatRes EXCEPT !.op = "prompt", !.chat_id = chat_id]

\* the history after $set conversation_history.<last_index>.assistant/citations
SetLast(history, response, citations) ==
  [history EXCEPT ![Len(history)] =
     [@ EXCEPT !.assistant = response, !.citations = citations]]

\* whether add_assistant_response_to_chat gets past its find_one check
CanRespond(chat_id) ==
  /\ chat_id \in DOMAIN chats
  /\ chats[chat_id] # <<>>

\* ChatUtils.add_assistant_response_to_chat
add_assistant_response_to_chat(chat_id, response, citations) ==
  IF CanRespond(chat_id)
  THEN /\ chats' = [chats EXCEPT ![chat_id] = SetLast(@, response, citations)]
       /\ cres' = [NoChatRes EXCEPT !.op = "response", !.chat_id = chat_id, !.ok = TRUE]
  ELSE /\ chats' = chats
       /\ cres' = [NoChatRes EXCEPT !.op = "response", !.chat_id = chat_id]

\* POST /chats/<chat_id>/response
add_assistant_response(chat_id, response, citations) ==
  IF Strip(response) = ""
  THEN /\ chats' = chats
       /\ cres' = [NoChatRes EXCEPT !.op = "response", !.chat_id = chat_id,
                                    !.status = 400]
  ELSE IF chat_id \notin DOMAIN chats
  THEN /\ chats' = chats
       /\ cres' = [NoChatRes EXCEPT !.op = "response", !.chat_id = chat_id,
                                    !.status = 404]
  ELSE IF chats[chat_id] = <<>>
  THEN /\ chats' = chats
       /\ cres' = [NoChatRes EXCEPT !.op = "response", !.chat_id = chat_id,
                                    !.status = 400]
  ELSE /\ add_assistant_response_to_chat(chat_id, Strip(response), citations)

AddPrompt ==
  /\ \E chat_id \in ChatIds, user_prompt \in Prompts :
       add_prompt_to_chat(chat_id, user_prompt)
  /\ UNCHANGED notChat

AddAssistantResponse ==
  /\ \E chat_id \in ChatIds, response \in Replies, citations \in CitationLists :
       add_assistant_response_to_chat(chat_id, response, citations)
  /\ UNCHANGED notChat

PostResponse ==
  /\ \E chat_id \in ChatIds, response \in Responses, citations \in CitationLists :
       add_assistant_response(chat_id, response, citations)
  /\ UNCHANGED notChat

IndexIdle == /\ collections = <<>> /\ documents = {}
             /\ nextDoc = 1 /\ res = NoRes

InitChat ==
  /\ chats = [chat_id \in ExistingChats |-> <<>>]
  /\ cres = NoChatRes
  /\ IndexIdle
  /\ BudgetIdle
  /\ FormatIdle
  /\ CiteIdle
  /\ TurnIdle
  /\ PromptIdle
  /\ DocIdle
  /\ EnsureIdle

NextChat ==
  \/ AddPrompt
  \/ AddAssistantResponse
  \/ PostResponse

SpecChat == InitChat /\ [][NextChat]_vars

\* C1: an assistant reply is written only into the most recently appended
\* entry; the write is rejected, leaving the history unchanged, when the
\* history is empty or when the most recent entry already has a non-empty
\* assistant field; no entry that holds a reply is ever overwritten.
C1_ReplyOnlyIntoOpenLastEntry ==
  [][ \A c \in DOMAIN chats :
        /\ c \in DOMAIN chats'
        /\ Len(chats'[c]) >= Len(chats[c])
        /\ \A i \in 1..Len(chats[c]) :
             (i < Len(chats[c]) \/ chats[c][i].assistant # "") =>
               chats'[c][i] = chats[c][i]
        /\ (cres'.op = "response" /\ cres'.chat_id = c /\
            (chats[c] = <<>> \/ chats[c][Len(chats[c])].assistant # "")) =>
             (~cres'.ok /\ chats'[c] = chats[c]) ]_vars

(***************************************************************************)
(* Prompt turns (LangChainChatbotService.process_chat_prompt)              *)
(* Each call is a process of its own; its steps are the reads and writes   *)
(* of the chats collection it makes, one database operation per step.      *)
(***************************************************************************)
MaxTurns == 2      \* calls of process_chat_prompt in one run

Turns == 1..MaxTurns

\* the stored chat, and an id no chat has
TurnChats == { <<"c">>, <<"x">> }

\* chat['userId'] of the stored chat; a request's user_id ("" for None)
Owner == "u1"
UserIds == { "", "u1", "u2" }

\* the prompt of the t-th call, and what the model answers to a prompt
PromptOf(t) == <<"p1", "p2", "p3", "p4">>[t]
ReplyTo(user_prompt) ==
  CASE user_prompt = "p1" -> "r1" [] user_prompt = "p2" -> "r2"
    [] user_prompt = "p3" -> "r3" [] OTHER -> "r4"

\* the fallback text of _generate_langchain_response, and error_response
\* of the except branch
FallbackResponse == "I apologize, but I'm having trouble accessing my language model"
ErrorResponse == "I apologize, but I encountered an error"

\* steps: the steps of the call made so far, in the order they were made
IdleTurn == [pc |-> "idle", chat_id |-> <<>>, user_id |-> "", user_prompt |-> "",
             response |-> "", failed |-> FALSE, last_index |-> 0,
             steps |-> <<>>]

InProgress(t) == turns[t].pc \notin {"idle", "done"}

\* Step 1: get_chat, 'Chat not found', 'User ID does not match chat owner'
Validates(chat_id, user_id) ==
  /\ chat_id \in DOMAIN chats
  /\ ~(user_id # "" /\ Owner # user_id)

\* A call begins and runs step 1; a ValueError sends it to the except branch
Begin(t, chat_id, user_id) ==
  /\ turns[t].pc = "idle"
  /\ turns' = [turns EXCEPT ![t] =
       [IdleTurn EXCEPT !.chat_id = chat_id, !.user_id = user_id,
                        !.user_prompt = PromptOf(t),
                        !.pc = IF Validates(chat_id, user_id)
                               THEN "validated" ELSE "respond",
                        !.failed = ~Validates(chat_id, user_id),
                        !.response = IF Validates(chat_id, user_id)
                                     THEN "" ELSE ErrorResponse]]
  /\ overlap' = (overlap \/ \E u \in Turns \ {t} : InProgress(u))
  /\ UNCHANGED <<chats, cres, history_log>>

\* Step 2: add_prompt_to_chat
AppendPrompt(t) ==
  /\ turns[t].pc = "validated"
  /\ add_prompt_to_chat(turns[t].chat_id, turns[t].user_prompt)
  /\ history_log' = [history_log EXCEPT ![turns[t].chat_id] =
                       Append(@, [by |-> t, replies |-> <<>>])]
  /\ turns' = [turns EXCEPT ![t].pc = "prompted",
                            ![t].steps = Append(@, "append")]
  /\ UNCHANGED overlap

\* Steps 3 to 7.  Retrieval, formatting and citation extraction catch their
\* exceptions; _get_or_create_conversation may raise; a failing model call
\* is answered with the fallback text.
GenerateOutcomes == {"reply", "unavailable", "raise"}

\* the steps made by steps 3 to 6: retrieval (step 3, line 250), context
\* formatting (line 251), and generation (step 6) unless step 4 raised
StepsMade(outcome) ==
  IF outcome = "raise"
  THEN << "retrieve", "format" >>
  ELSE << "retrieve", "format", "generate" >>

Generate(t, outcome) ==
  /\ turns[t].pc = "prompted"
  /\ turns' = [turns EXCEPT ![t] =
       [@ EXCEPT !.pc = "respond",
                 !.steps = turns[t].steps \o StepsMade(outcome),
                 !.failed = (outcome = "raise"),
                 !.response = CASE outcome = "reply" ->
                                     ReplyTo(turns[t].user_prompt)
                                [] outcome = "unavailable" -> FallbackResponse
                                [] OTHER -> ErrorResponse]]
  /\ UNCHANGED <<chats, cres, history_log, overlap>>

\* add_assistant_response_to_chat, its find_one: last_index is read here
FindLast(t) ==
  /\ turns[t].pc = "respond"
  /\ turns' = [turns EXCEPT ![t] =
       IF CanRespond(turns[t].chat_id)
       THEN [@ EXCEPT !.pc = "found",
                      !.last_index = Len(chats[turns[t].chat_id])]
       ELSE [@ EXCEPT !.pc = "done"]]
  /\ UNCHANGED <<chats, cres, history_log, overlap>>

\* add_assistant_response_to_chat, its update_one: $set on
\* conversation_history.<last_index>
SetReply(t) ==
  /\ turns[t].pc = "found"
  /\ chats' = [chats EXCEPT ![turns[t].chat_id][turns[t].last_index] =
                 [@ EXCEPT !.assistant = turns[t].response, !.citations = <<>>]]
  /\ cres' = [NoChatRes EXCEPT !.op = "response", !.chat_id = turns[t].chat_id,
                               !.ok = TRUE]
  /\ history_log' = [history_log EXCEPT
                       ![turns[t].chat_id][turns[t].last_index].replies =
                         Append(@, t)]
  /\ turns' = [turns EXCEPT ![t].pc = "done",
                            ![t].steps = Append(@, "persist")]
  /\ UNCHANGED overlap

TurnBegin ==
  /\ \E t \in Turns, chat_id \in TurnChats, user_id \in UserIds :
       Begin(t, chat_id, user_id)
  /\ UNCHANGED notTurn

TurnAppendPrompt ==
  /\ \E t \in Turns : AppendPrompt(t)
  /\ UNCHANGED notTurn

TurnGenerate ==
  /\ \E t \in Turns, outcome \in GenerateOutcomes : Generate(t, outcome)
  /\ UNCHANGED notTurn

TurnFindLast ==
  /\ \E t \in Turns : FindLast(t)
  /\ UNCHANGED notTurn

TurnSetReply ==
  /\ \E t \in Turns : SetReply(t)
  /\ UNCHANGED notTurn

InitTurns ==
  /\ chats = [chat_id \in ExistingChats |-> <<>>]
  /\ cres = NoChatRes
  /\ turns = [t \in Turns |-> IdleTurn]
  /\ history_log = [chat_id \in ExistingChats |-> <<>>]
  /\ overlap = FALSE
  /\ IndexIdle
  /\ BudgetIdle
  /\ FormatIdle
  /\ CiteIdle
  /\ PromptIdle
  /\ DocIdle
  /\ EnsureIdle

NextTurns ==
  \/ TurnBegin
  \/ TurnAppendPrompt
  \/ TurnGenerate
  \/ TurnFindLast
  \/ TurnSetReply

SpecTurns == InitTurns /\ [][NextTurns]_vars

AllTurnsDone == \A t \in Turns : turns[t].pc = "done"

\* C19: over any sequence of turns on one conversation every history entry
\* is created once by its user turn and mutated exactly once, to add its
\* reply and citations: no entry is written a second time, the error path
\* of process_chat_prompt included, and once all turns have ended every
\* entry has been written.
C19_EntryMutatedExactlyOnce ==
  \A c \in DOMAIN history_log :
    \A i \in DOMAIN history_log[c] :
      /\ Len(history_log[c][i].replies) <= 1
      /\ AllTurnsDone => Len(history_log[c][i].replies) = 1

\* C20: when the turns on a conversation are strictly serialized, every
\* entry's reply is the one generated for that entry's user message: it
\* was written by the turn that appended the entry and is that turn's text.
C20_SerializedRepliesMatch ==
  ~overlap =>
    \A c \in DOMAIN history_log :
      \A i \in DOMAIN history_log[c] :
        /\ \A k \in DOMAIN history_log[c][i].replies :
             history_log[c][i].replies[k] = history_log[c][i].by
        /\ chats[c][i].assistant \in
             {"", ReplyTo(chats[c][i].user), FallbackResponse, ErrorResponse}
        /\ chats[c][i].assistant # "" =>
             chats[c][i].assistant = turns[history_log[c][i].by].response

\* C27: a process_chat_prompt call that fails before its user prompt has been
\* appended leaves every existing history entry of the conversation
\* unchanged; it does not replace the assistant reply or the citations of
\* the previous turn's entry.
C27_FailedCallLeavesEntries ==
  [][ \A t \in Turns :
        (turns[t].failed /\ turns[t].steps = <<>> /\ turns'[t] # turns[t]) =>
          \A c \in DOMAIN chats :
            \A i \in DOMAIN chats[c] : chats'[c][i] = chats[c][i] ]_vars

\* A call that has begun is carried on to its end: each of its steps is
\* taken once it can be.
FairTurns ==
  /\ WF_vars(TurnAppendPrompt)
  /\ WF_vars(TurnGenerate)
  /\ WF_vars(TurnFindLast)
  /\ WF_vars(TurnSetReply)

SpecTurnsFair == InitTurns /\ [][NextTurns]_vars /\ FairTurns

\* the turn has appended its prompt
HasAppended(t) == \E k \in DOMAIN turns[t].steps : turns[t].steps[k] = "append"

\* the entry the turn appended holds a non-empty assistant field
OwnEntryAnswered(t) ==
  \E c \in DOMAIN history_log :
    \E i \in DOMAIN history_log[c] :
      /\ history_log[c][i].by = t
      /\ chats[c][i].assistant # ""

\* C28: every turn that appended a user prompt eventually ends with that
\* prompt's entry holding a non-empty assistant field, the generated reply
\* or an apology text; no turn terminates leaving its own entry with an
\* empty assistant reply.
C28_OwnEntryEventuallyAnswered ==
  \A t \in Turns : HasAppended(t) ~> OwnEntryAnswered(t)

\* the order the steps of one turn are to be made in
StepOrder == << "append", "retrieve", "format", "generate", "persist" >>

Position(step) == CHOOSE k \in DOMAIN StepOrder : StepOrder[k] = step

\* C22: within one process_chat_prompt turn the steps happen strictly in the
\* order history append, retrieval, context formatting, generation, response
\* persistence: retrieval never starts before the prompt has been appended,
\* and the reply is never persisted before generation has produced it nor
\* before the turn's own prompt entry exists.
C22_StepsInOrder ==
  \A t \in Turns :
    LET steps == turns[t].steps
    IN  /\ \A i, j \in DOMAIN steps :
             i < j => Position(steps[i]) < Position(steps[j])
        /\ \A j \in DOMAIN steps :
             \A k \in 1..(Position(steps[j]) - 1) :
               \E i \in 1..(j - 1) : steps[i] = StepOrder[k]

(***************************************************************************)
(* History formatting (LLMContextFormatter.format_chat_history)            *)
(***************************************************************************)
\* a history of whole pairs: user, assistant, user, assistant, ...
IsPairs(history) ==
  /\ Len(history) % 2 = 0
  /\ \A i \in DOMAIN history :
       history[i].role = IF i % 2 = 1 THEN "user" ELSE "assistant"

MaxEntries == 3    \* entries of a history handed to the formatter

UserTexts == { "", " ", "p1", "p2" }
AssistantTexts == { "", " ", "r1" }

Entries == [user : UserTexts, assistant : AssistantTexts]
Histories == SeqsUpTo(Entries, MaxEntries)

\* seq[start:] of Python: a negative start counts from the end
SliceFrom(seq, start) ==
  LET from == IF start < 0
              THEN (IF Len(seq) + start < 0 THEN 0 ELSE Len(seq) + start)
              ELSE (IF start > Len(seq) THEN Len(seq) ELSE start)
  IN  SubSeq(seq, from + 1, Len(seq))

\* conversation_history[-max_entries:] if len(...) > max_entries else all
RecentHistory(history, max) ==
  IF Len(history) > max THEN SliceFrom(history, 0 - max) ELSE history

\* Mutant of IsCompleteEntry: only the user text is required.
IsCompleteEntryUserOnly(entry) == Strip(entry.user) # ""

\* if user_content and assistant_content
IsCompleteEntry(entry) ==
  Strip(entry.user) # "" /\ Strip(entry.assistant) # ""

\* the loop over recent_history: two messages per complete entry
RECURSIVE FormatEntries(_)
FormatEntries(recent_history) ==
  IF recent_history = <<>> THEN <<>>
  ELSE (IF IsCompleteEntry(Head(recent_history))
        THEN << [role |-> "user", content |-> Strip(Head(recent_history).user)],
                [role |-> "assistant",
                 content |-> Strip(Head(recent_history).assistant)] >>
        ELSE <<>>) \o FormatEntries(Tail(recent_history))

FormatChatHistory(history, max) ==
  IF history = <<>> THEN <<>>
  ELSE FormatEntries(RecentHistory(history, max))

Format ==
  /\ ~formatted_history.returned
  /\ formatted_history' =
       [returned |-> TRUE,
        messages |-> FormatChatHistory(conversation_history, max_entries)]
  /\ UNCHANGED <<conversation_history, max_entries, notFormat>>

InitFormat ==
  /\ conversation_history \in Histories
  /\ max_entries \in 0..MaxEntries
  /\ formatted_history = NotFormatted
  /\ IndexIdle
  /\ ChatIdle
  /\ BudgetIdle
  /\ CiteIdle
  /\ TurnIdle
  /\ PromptIdle
  /\ DocIdle
  /\ EnsureIdle

NextFormat == Format

SpecFormat == InitFormat /\ [][NextFormat]_vars

\* the strictly increasing index lists of length n into 1..hi, all above lo
Picks(n, lo, hi) ==
  { idx \in [1..n -> (lo + 1)..hi] : \A j \in 1..(n - 1) : idx[j] < idx[j + 1] }

\* the formatted messages are, pair after pair, the stripped fields of the
\* history entries idx names
PairsComeFrom(idx) ==
  \A j \in DOMAIN idx :
    LET entry == conversation_history[idx[j]]
    IN  /\ Strip(entry.user) # "" /\ Strip(entry.assistant) # ""
        /\ formatted_history.messages[2 * j - 1].content = Strip(entry.user)
        /\ formatted_history.messages[2 * j].content = Strip(entry.assistant)

\* C13: format_chat_history emits no message with empty or whitespace-only
\* content, and its output is a sequence of matched pairs: even length,
\* roles alternating user, assistant, each pair from one history entry in
\* which both fields are non-empty, in the entries' order; an entry still
\* awaiting its reply contributes nothing.
C13_OnlyCompletePairs ==
  formatted_history.returned =>
    LET out == formatted_history.messages
    IN  /\ \A i \in DOMAIN out : Strip(out[i].content) # ""
        /\ IsPairs(out)
        /\ \E idx \in Picks(Len(out) \div 2, 0, Len(conversation_history)) :
             PairsComeFrom(idx)

\* C13 witness: a formatted history whose last entry awaits its reply and
\* whose earlier entries gave at least one pair
C13_OpenEntryDropped ==
  /\ formatted_history.returned
  /\ conversation_history # <<>>
  /\ LET last == conversation_history[Len(conversation_history)]
     IN  last.user = "p2" /\ last.assistant = ""
  /\ Len(formatted_history.messages) = 2
  /\ max_entries >= Len(conversation_history)

\* C14: for every history and every max_entries >= 0, format_chat_history
\* uses only the most recent max_entries entries: its output has at most
\* 2 * max_entries messages and holds no message of an older entry.
C14_OnlyRecentEntries ==
  formatted_history.returned =>
    LET out == formatted_history.messages
        n == Len(conversation_history)
        oldest == IF n > max_entries THEN n - max_entries ELSE 0
    IN  /\ Len(out) <= 2 * max_entries
        /\ \E idx \in Picks(Len(out) \div 2, oldest, n) : PairsComeFrom(idx)

(***************************************************************************)
(* Citations (LLMContextFormatter.extract_citations_from_context)          *)
(* The function compares texts character by character, so the texts are    *)
(* sequences of one-character strings here.                                *)
(***************************************************************************)
MaxCited == 2          \* context items handed to the extractor
WordLimit == 10        \* text.lower().split()[:10]
CitationTextLimit == 200

\* str.lower() on the characters used
LowerChar(ch) ==
  CASE ch = "A" -> "a" [] ch = "B" -> "b" [] ch = "P" -> "p"
    [] ch = "Y" -> "y" [] OTHER -> ch
Lower(str) == [i \in DOMAIN str |-> LowerChar(str[i])]

\* sub in str
Occurs(sub, str) ==
  \E k \in 0..(Len(str) - Len(sub)) : SubSeq(str, k + 1, k + Len(sub)) = sub

\* str.split(): the maximal runs of characters that are not whitespace
RECURSIVE SplitFrom(_, _, _, _)
SplitFrom(str, i, word, words) ==
  LET closed == IF word = <<>> THEN words ELSE Append(words, word)
  IN  IF i > Len(str) THEN closed
      ELSE IF str[i] = " " THEN SplitFrom(str, i + 1, <<>>, closed)
      ELSE SplitFrom(str, i + 1, Append(word, str[i]), words)
Split(str) == SplitFrom(str, 1, <<>>, <<>>)

\* Mutant of FirstWords: every word of the text is tried.
AllWords(text) == Split(Lower(text))

\* text.lower().split()[:10]
FirstWords(text) ==
  LET words == Split(Lower(text))
  IN  SubSeq(words, 1, IF Len(words) < WordLimit THEN Len(words) ELSE WordLimit)

\* the condition under which item i of the context is cited
IsReferenced(item, response) ==
  /\ item.document # <<>>
  /\ item.text # <<>>
  /\ \/ Occurs(Lower(item.document), Lower(response))
     \/ \E j \in DOMAIN FirstWords(item.text) :
          Occurs(FirstWords(item.text)[j], Lower(response))

\* the citation built for item i (0-based, as enumerate counts)
Citation(item, i) ==
  [citationId |-> <<"auto_citation", i>>,
   source |-> item.document,
   text |-> IF Len(item.text) > CitationTextLimit
            THEN SubSeq(item.text, 1, CitationTextLimit) \o <<".", ".", ".">>
            ELSE item.text]

RECURSIVE CitationsFrom(_, _, _)
CitationsFrom(context, i, response) ==
  IF i >= Len(context) THEN <<>>
  ELSE (IF IsReferenced(context[i + 1], response)
        THEN << Citation(context[i + 1], i) >> ELSE <<>>)
       \o CitationsFrom(context, i + 1, response)

ExtractCitationsFromContext(context, response) ==
  CitationsFrom(context, 0, response)

\* Texts tried.  Documents and texts are what format_rag_context emits,
\* never empty; the second text has eleven words, the last of them "yz".
CiteDocuments == { <<"A", ".", "p">>, <<"c">> }
CiteTexts ==
  { <<"A", "b">>,
    <<"x", " ", " ", "B">>,
    <<"x", " ", "x", " ", "x", " ", "x", " ", "x", " ", "x", " ", "x", " ",
      "x", " ", "x", " ", "x", " ", "y", "z">> }
CiteResponses ==
  { <<>>, <<"a", "B", "b">>, <<"Y", "z">>, <<"s", "e", "e", " ", "a", ".", "P">>,
    <<"x", "y">> }
CiteContexts == SeqsUpTo([document : CiteDocuments, text : CiteTexts], MaxCited)

ExtractCitations ==
  /\ ~cited.returned
  /\ cited' =
       [returned |-> TRUE,
        items |-> ExtractCitationsFromContext(cite_context, assistant_response)]
  /\ UNCHANGED <<cite_context, assistant_response, notCite>>

InitCite ==
  /\ cite_context \in CiteContexts
  /\ assistant_response \in CiteResponses
  /\ cited = NotCited
  /\ IndexIdle
  /\ ChatIdle
  /\ BudgetIdle
  /\ FormatIdle
  /\ TurnIdle
  /\ PromptIdle
  /\ DocIdle
  /\ EnsureIdle

NextCite == ExtractCitations

SpecCite == InitCite /\ [][NextCite]_vars

\* C15: a context item is cited if and only if its document label occurs
\* case-insensitively as a substring of the response, or one of the first 10
\* whitespace-separated words of its text occurs case-insensitively in the
\* response; citations are in context order, at most one per item, each
\* with a citation id distinct from the others of the result.
C15_CitedIffReferenced ==
  cited.returned =>
    LET out == cited.items
        resp == Lower(assistant_response)
        words(item) == Split(item.text)
        matches(item) ==
          \/ Occurs(Lower(item.document), resp)
          \/ \E j \in DOMAIN words(item) :
               j <= 10 /\ Occurs(Lower(words(item)[j]), resp)
    IN  /\ \E idx \in Picks(Len(out), 0, Len(cite_context)) :
             /\ { idx[j] : j \in DOMAIN idx } =
                  { i \in DOMAIN cite_context : matches(cite_context[i]) }
             /\ \A j \in DOMAIN idx :
                  out[j].source = cite_context[idx[j]].document
        /\ \A j, k \in DOMAIN out :
             j # k => out[j].citationId # out[k].citationId

\* C15 witness: of two context items only the second is cited, by its
\* document label written in another case in the response
C15_SecondItemCitedByLabel ==
  /\ cited.returned
  /\ Len(cite_context) = 2
  /\ cite_context[1].document # cite_context[2].document
  /\ assistant_response = <<"s", "e", "e", " ", "a", ".", "P">>
  /\ Len(cited.items) = 1
  /\ cited.items[1].source = cite_context[2].document

(***************************************************************************)
(* Token budget (LLMContextFormatter.truncate_context_if_needed)           *)
(* A text is held as its length in characters, which is all the function   *)
(* reads of it.  The lists are the well-typed ones format_rag_context and  *)
(* format_chat_history build, on which no statement of the try block       *)
(* raises, so the except branch is not taken.                              *)
(***************************************************************************)
MaxItems == 2      \* context items, and history messages, in one call
MaxTokens == 4     \* largest max_tokens tried

\* lengths of the texts tried (the formatters emit no empty text): under one
\* token, one token, two tokens
TextLens == { 3, 4, 8 }

\* context items {document, text} and history messages {role, content}
ContextLists ==
  { [i \in DOMAIN lens |-> [document |-> "f.pdf", text |-> lens[i]]] :
      lens \in SeqsUpTo(TextLens, MaxItems) }
HistoryLists ==
  { [i \in DOMAIN lens |->
       [role |-> IF i % 2 = 1 THEN "user" ELSE "assistant", content |-> lens[i]]] :
      lens \in SeqsUpTo(TextLens, MaxItems) }

RECURSIVE SumLens(_)
SumLens(lens) == IF lens = <<>> THEN 0 ELSE Head(lens) + SumLens(Tail(lens))

\* len(" ".join(texts)): the texts and one space between neighbours
JoinLen(lens) == IF lens = <<>> THEN 0 ELSE SumLens(lens) + (Len(lens) - 1)

\* estimate_token_count: len(text) // 4
EstimateTokenCount(len) == len \div 4

ContextTokens(context) ==
  EstimateTokenCount(JoinLen([i \in DOMAIN context |-> context[i].text]))
HistoryTokens(history) ==
  EstimateTokenCount(JoinLen([i \in DOMAIN history |-> history[i].content]))

\* Mutant of KeepContext: an item that does not fit is skipped and the loop
\* goes on to the next one.
RECURSIVE KeepContextSkipping(_, _, _)
KeepContextSkipping(items, current_tokens, max_context_tokens) ==
  IF items = <<>> THEN <<>>
  ELSE LET item_tokens == EstimateTokenCount(Head(items).text)
       IN  IF current_tokens + item_tokens <= max_context_tokens
           THEN <<Head(items)>> \o
                KeepContextSkipping(Tail(items), current_tokens + item_tokens,
                                    max_context_tokens)
           ELSE KeepContextSkipping(Tail(items), current_tokens,
                                    max_context_tokens)

\* the loop over rag_context: keep items while they fit, stop at the first
\* that does not
RECURSIVE KeepContext(_, _, _)
KeepContext(items, current_tokens, max_context_tokens) ==
  IF items = <<>> THEN <<>>
  ELSE LET item_tokens == EstimateTokenCount(Head(items).text)
       IN  IF current_tokens + item_tokens <= max_context_tokens
           THEN <<Head(items)>> \o
                KeepContext(Tail(items), current_tokens + item_tokens,
                            max_context_tokens)
           ELSE <<>>

\* the loop over reversed(chat_history), each kept message inserted at 0
RECURSIVE KeepHistory(_, _, _)
KeepHistory(msgs, current_tokens, max_history_tokens) ==
  IF msgs = <<>> THEN <<>>
  ELSE LET msg == msgs[Len(msgs)]
           msg_tokens == EstimateTokenCount(msg.content)
       IN  IF current_tokens + msg_tokens <= max_history_tokens
           THEN KeepHistory(SubSeq(msgs, 1, Len(msgs) - 1),
                            current_tokens + msg_tokens, max_history_tokens)
                \o <<msg>>
           ELSE <<>>

\* Mutant of TruncateContextIfNeeded: the halves are enforced without first
\* testing whether the total fits.
TruncateAlways(context, history, max) ==
  << KeepContext(context, 0, max \div 2), KeepHistory(history, 0, max \div 2) >>

\* truncate_context_if_needed: the pair it returns
TruncateContextIfNeeded(context, history, max) ==
  IF ContextTokens(context) + HistoryTokens(history) <= max
  THEN << context, history >>
  ELSE << KeepContext(context, 0, max \div 2),
          KeepHistory(history, 0, max \div 2) >>

Truncate ==
  /\ truncated = <<>>
  /\ truncated' = TruncateContextIfNeeded(rag_context, chat_history, max_tokens)
  /\ UNCHANGED <<rag_context, chat_history, max_tokens, notBudget>>

InitBudget ==
  /\ rag_context \in ContextLists
  /\ chat_history \in HistoryLists
  /\ max_tokens \in 1..MaxTokens
  /\ truncated = <<>>
  /\ IndexIdle
  /\ ChatIdle
  /\ FormatIdle
  /\ CiteIdle
  /\ TurnIdle
  /\ PromptIdle
  /\ DocIdle
  /\ EnsureIdle

NextBudget == Truncate

SpecBudget == InitBudget /\ [][NextBudget]_vars

\* C9: the token estimate of what truncate_context_if_needed returns, by the
\* estimate of the input check (len // 4 of the space-joined context texts
\* plus len // 4 of the space-joined history contents), never exceeds
\* max_tokens.
C9_OutputWithinBudget ==
  truncated # <<>> =>
    ContextTokens(truncated[1]) + HistoryTokens(truncated[2]) <= max_tokens

\* C10: when the estimated context tokens plus the estimated history tokens
\* are at most max_tokens, both lists are returned unmodified.
C10_FittingInputUnmodified ==
  (truncated # <<>> /\
   ContextTokens(rag_context) + HistoryTokens(chat_history) <= max_tokens) =>
    (truncated[1] = rag_context /\ truncated[2] = chat_history)

\* C10 witness: a returned input that fits the budget as a whole although
\* its context alone is over half of it
C10_FittingButLopsided ==
  /\ truncated # <<>>
  /\ ContextTokens(rag_context) + HistoryTokens(chat_history) <= max_tokens
  /\ ContextTokens(rag_context) > max_tokens \div 2
  /\ Len(rag_context) = 2
  /\ chat_history # <<>>

\* the per-item estimates of a list of texts, summed
RECURSIVE SumTokens(_)
SumTokens(lens) ==
  IF lens = <<>> THEN 0
  ELSE EstimateTokenCount(Head(lens)) + SumTokens(Tail(lens))

OverBudget ==
  /\ truncated # <<>>
  /\ ContextTokens(rag_context) + HistoryTokens(chat_history) > max_tokens

\* C11: when the combined estimate exceeds max_tokens, the returned context
\* is the longest prefix of the context list whose per-item estimates sum to
\* at most max_tokens // 2, and the returned history is the longest suffix
\* of the history list, in its original order, whose per-message estimates
\* sum to at most max_tokens // 2.
C11_PrefixAndSuffixKept ==
  OverBudget =>
    LET half == max_tokens \div 2
        ctxLens(n) == [i \in 1..n |-> rag_context[i].text]
        histLens(n) == [i \in 1..n |->
                         chat_history[Len(chat_history) - n + i].content]
        fitsC == { n \in 0..Len(rag_context) : SumTokens(ctxLens(n)) <= half }
        fitsH == { n \in 0..Len(chat_history) : SumTokens(histLens(n)) <= half }
        nC == CHOOSE n \in fitsC : \A m \in fitsC : m <= n
        nH == CHOOSE n \in fitsH : \A m \in fitsH : m <= n
    IN  /\ truncated[1] = SubSeq(rag_context, 1, nC)
        /\ truncated[2] = SubSeq(chat_history, Len(chat_history) - nH + 1,
                                 Len(chat_history))

\* C11 witness: an over-budget call that kept the first context item and
\* dropped the second, and kept the last history message and dropped the
\* first
C11_BothListsCut ==
  /\ OverBudget
  /\ Len(rag_context) = 2 /\ truncated[1] = SubSeq(rag_context, 1, 1)
  /\ Len(chat_history) = 2 /\ truncated[2] = SubSeq(chat_history, 2, 2)

\* C12: given a history made of alternating user/assistant pairs, the
\* history truncate_context_if_needed returns is again a sequence of
\* complete pairs: it never begins with an assistant message whose user
\* message was dropped.
C12_HistoryKeptInPairs ==
  (truncated # <<>> /\ IsPairs(chat_history)) => IsPairs(truncated[2])

(***************************************************************************)
(* The prompt request (POST /chats/<chat_id>/prompt), one request at a     *)
(* time: the route, process_chat_prompt and the message history that the   *)
(* service keeps in memory for each chat.  A text that is sent to the      *)
(* language model is held as its length in characters.                     *)
(***************************************************************************)
MaxMessages == 4        \* messages kept in memory for one chat

\* MAX_RAG_RESULTS and MAX_CONTEXT_TOKENS of the environment, scaled to the
\* text lengths tried
MaxRagResults == 2
MaxContextTokens == 8

\* _prepare_final_prompt: the lengths of its literal parts
ContextHeaderLen == 33      \* "Context from uploaded documents:\n"
DocumentLabelLen == 19      \* "Document: Unknown\\n"
ContextSeparatorLen == 4    \* "\\n\\n"
QuestionLabelLen == 12      \* "\n\nQuestion: "

\* what a client posts as the prompt, and the length of a prompt or a reply
RequestPrompts == { "p1", " " }
TextLen(text) == IF text = " " THEN 1 ELSE 8

\* what retrieval and format_rag_context hand on: at most max_rag_results
\* items {document, text}, each the text of one full chunk
ChunkLens == { 8 }
RetrievedContexts ==
  { context \in ContextLists :
      /\ Len(context) <= MaxRagResults
      /\ \A i \in DOMAIN context : context[i].text \in ChunkLens }

\* _prepare_final_prompt: the length of the text it returns
PrepareFinalPrompt(user_len, context) ==
  IF context = <<>>
  THEN user_len
  ELSE ContextHeaderLen
       + SumLens([i \in DOMAIN context |-> DocumentLabelLen + context[i].text])
       + ContextSeparatorLen * (Len(context) - 1)
       + QuestionLabelLen + user_len

\* _get_message_history: the messages kept for the chat, none at first
MessageHistory(hists, chat_id) ==
  IF chat_id \in DOMAIN hists THEN hists[chat_id] ELSE <<>>

\* the histories once the chat's one holds the given messages
WithHistory(hists, chat_id, messages) ==
  [c \in DOMAIN hists \cup {chat_id} |->
     IF c = chat_id THEN messages ELSE hists[c]]

\* the chats collection after add_prompt_to_chat's $push
Pushed(store, chat_id, user_prompt) ==
  IF chat_id \in DOMAIN store
  THEN [store EXCEPT ![chat_id] = Append(@, ConversationEntry(user_prompt))]
  ELSE store

\* the chats collection after add_assistant_response_to_chat
Answered(store, chat_id, response, citations) ==
  IF chat_id \in DOMAIN store /\ store[chat_id] # <<>>
  THEN [store EXCEPT ![chat_id] = SetLast(@, response, citations)]
  ELSE store

\* _generate_langchain_response: the runnable reads the chat's message
\* history, sends it with the input to the model, and on a reply appends the
\* input and the reply to the history; a failing call is answered with the
\* fallback text and appends nothing.
GenerateLangchainResponse(hists, chat_id, user_prompt, final_prompt, context, model_ok) ==
  LET history == MessageHistory(hists, chat_id)
      response == ReplyTo(user_prompt)
  IN  IF model_ok
      THEN [response |-> response,
            hists |-> WithHistory(hists, chat_id,
                        history \o << [role |-> "human", content |-> final_prompt],
                                      [role |-> "ai", content |-> TextLen(response)] >>),
            supplied |-> [given |-> TRUE, chat_id |-> chat_id,
                          context |-> context, history |-> history,
                          input |-> final_prompt]]
      ELSE [response |-> FallbackResponse,
            hists |-> WithHistory(hists, chat_id, history),
            supplied |-> supplied]

\* the except branch of process_chat_prompt: error_response is written with
\* add_assistant_response_to_chat and the exception is raised again
Failed(store) ==
  [raised |-> TRUE, store |-> store, hists |-> message_histories,
   supplied |-> supplied, response |-> ErrorResponse]

\* process_chat_prompt: what it leaves behind, and whether it raised
process_chat_prompt(chat_id, user_prompt, user_id, push_ok, context, cites, model_ok) ==
  LET pushed == IF push_ok THEN Pushed(chats, chat_id, user_prompt) ELSE chats
      final_prompt == PrepareFinalPrompt(TextLen(user_prompt), context)
      generated == GenerateLangchainResponse(message_histories, chat_id,
                     user_prompt, final_prompt, context, model_ok)
      citations == IF cites /\ context # <<>>
                   THEN << [source |-> "f.pdf"] >> ELSE <<>>
  IN  IF ~Validates(chat_id, user_id)
      THEN Failed(Answered(chats, chat_id, ErrorResponse, <<>>))
      ELSE IF ~llm_available
      THEN Failed(Answered(pushed, chat_id, ErrorResponse, <<>>))
      ELSE [raised |-> FALSE,
            store |-> Answered(pushed, chat_id, generated.response, citations),
            hists |-> generated.hists,
            supplied |-> generated.supplied,
            response |-> generated.response]

\* POST /chats/<chat_id>/prompt
PostPrompt(chat_id, prompt, user_id, push_ok, context, cites, model_ok, fallback_ok) ==
  LET user_prompt == Strip(prompt)
      done == process_chat_prompt(chat_id, user_prompt, user_id, push_ok,
                                  context, cites, model_ok)
      rejected(status) ==
        /\ pres' = [NoPromptRes EXCEPT !.op = "prompt", !.chat_id = chat_id,
                                       !.status = status]
        /\ UNCHANGED <<chats, message_histories, supplied>>
  IN  IF user_prompt = "" THEN rejected(400)
      ELSE IF chat_id \notin DOMAIN chats THEN rejected(404)
      ELSE IF ~done.raised
      THEN /\ chats' = done.store
           /\ message_histories' = done.hists
           /\ supplied' = done.supplied
           /\ pres' = [NoPromptRes EXCEPT !.op = "prompt", !.chat_id = chat_id,
                                          !.status = 200]
      ELSE /\ chats' = IF fallback_ok
                       THEN Pushed(done.store, chat_id, user_prompt)
                       ELSE done.store
           /\ message_histories' = done.hists
           /\ supplied' = done.supplied
           /\ pres' = [NoPromptRes EXCEPT
                         !.op = "prompt", !.chat_id = chat_id,
                         !.status = IF fallback_ok THEN 200 ELSE 500,
                         !.fallback_mode = fallback_ok]

\* a request's userId: none, or one that is not the chat owner's
RequestUsers == { "", "u2" }

\* One request.  The choices that a rejected request never looks at are not
\* enumerated.
Prompt ==
  /\ \E chat_id \in TurnChats, prompt \in RequestPrompts :
       LET accepted == Strip(prompt) # "" /\ chat_id \in DOMAIN chats
           Choice(S, none) == IF accepted THEN S ELSE {none}
       IN  \E user_id \in Choice(RequestUsers, ""),
              push_ok \in Choice(BOOLEAN, TRUE),
              context \in Choice(RetrievedContexts, <<>>),
              cites \in Choice(BOOLEAN, FALSE),
              model_ok \in Choice(BOOLEAN, TRUE),
              fallback_ok \in Choice(BOOLEAN, TRUE) :
             PostPrompt(chat_id, prompt, user_id, push_ok, context, cites,
                        model_ok, fallback_ok)
  /\ \A c \in DOMAIN chats' : Len(chats'[c]) <= MaxHistory
  /\ \A c \in DOMAIN message_histories' :
       Len(message_histories'[c]) <= MaxMessages
  /\ UNCHANGED <<llm_available, notPrompt>>

InitPrompt ==
  /\ chats = [chat_id \in ExistingChats |-> <<>>]
  /\ cres = NoChatRes
  /\ message_histories = <<>>
  /\ llm_available \in BOOLEAN
  /\ supplied = NoSupply
  /\ pres = NoPromptRes
  /\ IndexIdle
  /\ BudgetIdle
  /\ FormatIdle
  /\ CiteIdle
  /\ TurnIdle
  /\ DocIdle
  /\ EnsureIdle

NextPrompt == Prompt

SpecPrompt == InitPrompt /\ [][NextPrompt]_vars

\* C26: each accepted POST /chats/<chat_id>/prompt request appends exactly
\* one entry to the conversation's history for its prompt, on the normal
\* path and on the fallback path taken when the chatbot service raises.
C26_OneEntryPerRequest ==
  [][ (pres'.op = "prompt" /\ pres'.status = 200) =>
        /\ Len(chats'[pres'.chat_id]) = Len(chats[pres'.chat_id]) + 1
        /\ chats'[pres'.chat_id][Len(chats'[pres'.chat_id])].user = "p1" ]_vars

\* C21: in every turn, after any number of earlier turns on the conversation,
\* the retrieved context plus the conversation history that the model is
\* given has a total estimated size (len // 4) of at most the configured
\* maximum context token budget.
C21_SuppliedWithinBudget ==
  supplied.given =>
    ContextTokens(supplied.context) + HistoryTokens(supplied.history)
      <= MaxContextTokens

(***************************************************************************)
(* The document workflow on its own (DocProcessor.extract_text_with_pages  *)
(* and process_pdf), applied to files of every shape of the bounds         *)
(***************************************************************************)
MaxPages == 3      \* pages of a file

ExtractPages ==
  /\ ~extracted.returned
  /\ extracted' = [returned |-> TRUE, entries |-> ExtractTextWithPages(pdf_file)]
  /\ UNCHANGED <<pdf_file, processed, notDoc>>

\* process_pdf, the provider answering the batch call with k vectors or
\* raising and then answering every single-item call
ProcessFile ==
  /\ ~processed.returned
  /\ \E batch_ok \in BOOLEAN,
        k \in 0..Len(ChunkTextWithMetadata(ExtractTextWithPages(pdf_file))) :
       processed' = [returned |-> TRUE, docId |-> 1,
                     chunks |-> ProcessPdf(1, pdf_file, k, batch_ok, {})]
  /\ UNCHANGED <<pdf_file, extracted, notDoc>>

InitDoc ==
  /\ pdf_file \in SeqsUpTo(PageTexts, MaxPages)
  /\ extracted = NotExtracted
  /\ processed = NotProcessed
  /\ IndexIdle
  /\ ChatIdle
  /\ BudgetIdle
  /\ FormatIdle
  /\ CiteIdle
  /\ TurnIdle
  /\ PromptIdle
  /\ EnsureIdle

NextDoc ==
  \/ ExtractPages
  \/ ProcessFile

SpecDoc == InitDoc /\ [][NextDoc]_vars

\* C23: extract_text_with_pages returns one entry per page that contains
\* non-whitespace text and none for the other pages; each entry's page_no is
\* the page's 1-indexed position in the document, and the page numbers of
\* the output are strictly increasing.
C23_EntryPerTextPage ==
  extracted.returned =>
    LET out == extracted.entries
    IN  /\ \A i \in 1..Len(pdf_file) :
             Cardinality({ k \in DOMAIN out : out[k].page_no = i }) =
               IF pdf_file[i] \in { "", " " } THEN 0 ELSE 1
        /\ \A k \in DOMAIN out : out[k].page_no \in 1..Len(pdf_file)
        /\ \A k \in 1..(Len(out) - 1) : out[k].page_no < out[k + 1].page_no

\* C23 witness: a 3-page file with text on pages 1 and 3 only has yielded
\* the entries of pages 1 and 3
C23_PagesOneAndThree ==
  /\ extracted.returned
  /\ Len(pdf_file) = 3
  /\ pdf_file[1] = "t1" /\ pdf_file[2] = " " /\ pdf_file[3] = "t2"
  /\ [k \in DOMAIN extracted.entries |-> extracted.entries[k].page_no]
       = << 1, 3 >>

\* the ordinal of a formatted chunk: the part of its id after the document id
Ordinal(chunk) == chunk.chunk_id[2]

\* C24: the chunk ordinal in the chunk id is a single running counter over
\* all pages in extraction order: of two chunks of one document the one with
\* the smaller ordinal has a page number less than or equal to the other's,
\* the counter is not reset at a page boundary (the k-th chunk has ordinal
\* k, so no two chunks share one), and every chunk's text comes from exactly
\* one page, the one its pageNo names.
C24_RunningOrdinal ==
  processed.returned =>
    LET chunks == processed.chunks
    IN  /\ \A i, j \in DOMAIN chunks :
             Ordinal(chunks[i]) < Ordinal(chunks[j]) =>
               chunks[i].pageNo <= chunks[j].pageNo
        /\ \A k \in DOMAIN chunks :
             /\ chunks[k].chunk_id[1] = processed.docId
             /\ Ordinal(chunks[k]) = k
        /\ \A k \in DOMAIN chunks :
             /\ chunks[k].pageNo \in 1..Len(pdf_file)
             /\ LET pieces == SplitText(CleanText(pdf_file[chunks[k].pageNo]))
                IN  \E piece \in DOMAIN pieces : pieces[piece] = chunks[k].text

\* C24 witness: a document whose first page gave two chunks and whose third
\* page gave the chunk after them
C24_OrdinalRunsOverPages ==
  /\ processed.returned
  /\ Len(processed.chunks) = 3
  /\ [k \in 1..3 |-> processed.chunks[k].pageNo] = << 1, 1, 3 >>
  /\ [k \in 1..3 |-> Ordinal(processed.chunks[k])] = << 1, 2, 3 >>

\* C25: ingestion fails with an embedding error, and stores nothing, whenever
\* the embedding provider returns an empty vector for some chunk; so every
\* chunk present in a vector collection has a non-empty embedding.
C25_EmptyVectorFailsIngestion ==
  /\ (res.op = "upload" /\ res.empty_vectors # {}) =>
       /\ ~res.success
       /\ res.error = "embed"
       /\ ChunksOfDoc(res.doc_id) = {}
       /\ DescriptorsOf(res.doc_id) = {}
  /\ \A name \in DOMAIN collections :
       \A c \in collections[name] : c.embedding # EmptyVector

\* C29: get_all_chat_dbs lists each existing conversation collection exactly
\* once, the chat_id it reports for a collection is the conversation id the
\* collection was created for (conversation id -> collection name ->
\* reported chat_id is a round trip), and total_chunks and total_documents
\* are the numbers of chunks and of distinct document ids stored in it.
C29_ListingRoundTrip ==
  (res.op = "list" /\ res.success) =>
    /\ \A name \in DOMAIN collections :
         Cardinality({ i \in DOMAIN res.chat_dbs :
                         res.chat_dbs[i].collection_name = name }) = 1
    /\ \A i \in DOMAIN res.chat_dbs :
         LET entry == res.chat_dbs[i]
         IN  /\ entry.collection_name \in DOMAIN collections
             /\ \A chat_id \in ListedChats :
                  CollectionName(chat_id) = entry.collection_name =>
                    entry.chat_id = chat_id
             /\ entry.status = "active" =>
                  /\ entry.total_chunks =
                       Cardinality(collections[entry.collection_name])
                  /\ entry.total_documents =
                       Cardinality({ c.doc_id :
                                       c \in collections[entry.collection_name] })

\* C30: when two operations that ensure the same conversation's collection
\* interleave, exactly one collection exists afterwards and neither
\* operation fails because of the other: the check-then-create sequence
\* never turns a concurrent creation into a failed create or an aborted
\* upload.
C30_ConcurrentEnsure ==
  /\ \A p \in Ensurers : ensurers[p].error = ""
  /\ (\E p \in Ensurers : ensurers[p].pc \in {"ensured", "done"}) =>
       Cardinality(DOMAIN collections) = 1

====
